---- MODULE Spec2Model ----
(***************************************************************************)
(* State-machine model of src/index.js: the two-party translation relay.   *)
(*                                                                         *)
(* Node runs every handler on one event loop: the code between two awaits  *)
(* runs without interleaving, so each action below is one such run of a    *)
(* handler, from its start or from the resumption of an await up to the    *)
(* next await or the reply.                                                *)
(*                                                                         *)
(* Representation of JavaScript values:                                    *)
(*   - a language-code string is the sequence of its "-"-separated parts   *)
(*     ("en-US" is <<"en","US">>, the empty string is <<"">>), and a form  *)
(*     field that was not sent (undefined) is <<>>;                        *)
(*   - audio bytes are sequences of numbers 0..255;                        *)
(*   - a queued payload object carries, besides its three JSON fields, the *)
(*     ghost field rid: the request that built the object (its identity);  *)
(*   - a nullable field of a JSON reply is <<>> for null and <<v>> for v.  *)
(***************************************************************************)
EXTENDS Integers, Sequences, FiniteSets, TLC

(* ------------------------------ bounds -------------------------------- *)

\* Number of POST /interpret requests of a run.
NReq == 2
\* Largest value Date.now() takes (the clock starts at 0, never decreases).
MaxClock == 1

Reqs == 1..NReq

(* ------------------------- program constants -------------------------- *)

Slots == {"A", "B"}

\* The values of the mode field / path parameter: "C" stands for every
\* value outside {"A","B"} (another string, or a field that was not sent).
Modes == {"A", "B", "C"}

Undefined == "undefined"

UndefinedLang == <<>>
EmptyLang == <<"">>

\* const LANGUAGES = { "en-US": "English", ... }
LanguageNames ==
  << <<"en", "US", "English">>, <<"fr", "FR", "French">>,
     <<"tr", "TR", "Turkish">>, <<"es", "ES", "Spanish">>,
     <<"pl", "PL", "Polish">>, <<"it", "IT", "Italian">>,
     <<"pt", "PT", "Portuguese">>, <<"cmn", "CN", "Chinese">>,
     <<"ar", "XA", "Arabic">>, <<"de", "DE", "German">> >>

LanguageKeys == { <<LanguageNames[i][1], LanguageNames[i][2]>> : i \in DOMAIN LanguageNames }

\* LANGUAGES and femaleVoices are object literals: obj[key] also finds the
\* properties every object inherits from Object.prototype, for which it gives
\* the inherited function or object (a truthy value that is no string of the
\* table).
ObjectPrototypeKeys ==
  { <<"constructor">>, <<"toString">>, <<"toLocaleString">>, <<"valueOf">>,
    <<"hasOwnProperty">>, <<"isPrototypeOf">>, <<"propertyIsEnumerable">>,
    <<"__proto__">> }

Inherited(key) == "Object.prototype." \o key[1]

\* LANGUAGES[lang]: the display name, the inherited property, or undefined
\* for a key that is absent.
LANGUAGES(lang) ==
  IF lang \in LanguageKeys
    THEN LET i == CHOOSE j \in DOMAIN LanguageNames :
                    <<LanguageNames[j][1], LanguageNames[j][2]>> = lang
         IN LanguageNames[i][3]
  ELSE IF lang \in ObjectPrototypeKeys THEN Inherited(lang)
  ELSE Undefined

\* femaleVoices of getVoiceForLang
femaleVoices(lang) ==
  CASE lang = <<"en", "US">> -> "nova"
    [] lang = <<"fr", "FR">> -> "onyx"
    [] lang = <<"es", "ES">> -> "shimmer"
    [] lang = <<"de", "DE">> -> "echo"
    [] lang \in ObjectPrototypeKeys -> Inherited(lang)
    [] OTHER -> Undefined

\* return femaleVoices[lang] || "nova"
getVoiceForLang(lang) ==
  IF femaleVoices(lang) # Undefined THEN femaleVoices(lang) ELSE "nova"

\* Mutant of Falsy: only a field that was not sent is rejected.
FalsyUndefinedOnly(lang) == lang = UndefinedLang

\* Line 63, !sourceLang and !targetLang: undefined and the empty string are falsy.
Falsy(lang) == lang = UndefinedLang \/ lang = EmptyLang

\* sourceLang.split("-")[0]
PrimarySubtag(lang) == lang[1]

\* Mutant of InterpretModeOk: the mode check is left out.
InterpretModeAny(mode) == TRUE

\* Line 71: ["A", "B"].includes(mode), on the form field of POST /interpret
InterpretModeOk(mode) == mode \in {"A", "B"}

\* Mutant of StreamModeOk: slot B is missing from the list.
StreamModeOnlyA(mode) == mode = "A"

\* Line 143: ["A", "B"].includes(mode), on the path parameter of GET /stream/:mode
StreamModeOk(mode) == mode \in {"A", "B"}

(* ------------------------------ inputs -------------------------------- *)

SourceLangs == {EmptyLang, <<"en", "US">>}
TargetLangs == {UndefinedLang, <<"fr", "FR">>}
Transcripts == {"hello"}
\* translationResult.choices, as the sequence of the choices' message.content
ChoiceLists == {<<>>, <<"bonjour">>}
AudioBuffers == {<<73, 68, 51, 4>>}

(* ------------------------------ base64 -------------------------------- *)

B64Alphabet ==
  << "A", "B", "C", "D", "E", "F", "G", "H", "I", "J", "K", "L", "M", "N", "O", "P",
     "Q", "R", "S", "T", "U", "V", "W", "X", "Y", "Z", "a", "b", "c", "d", "e", "f",
     "g", "h", "i", "j", "k", "l", "m", "n", "o", "p", "q", "r", "s", "t", "u", "v",
     "w", "x", "y", "z", "0", "1", "2", "3", "4", "5", "6", "7", "8", "9", "+", "/" >>

\* audioBuffer.toString("base64"): three bytes give four characters, the last
\* group is padded with "=".
RECURSIVE Base64(_)
Base64(bytes) ==
  IF Len(bytes) = 0 THEN ""
  ELSE LET n == Len(bytes)
           b1 == bytes[1]
           b2 == IF n >= 2 THEN bytes[2] ELSE 0
           b3 == IF n >= 3 THEN bytes[3] ELSE 0
           Ch(i) == B64Alphabet[i + 1]
       IN Ch(b1 \div 4)
          \o Ch((b1 % 4) * 16 + (b2 \div 16))
          \o (IF n >= 2 THEN Ch((b2 % 16) * 4 + (b3 \div 64)) ELSE "=")
          \o (IF n >= 3 THEN Ch(b3 % 64) ELSE "=")
          \o (IF n > 3 THEN Base64(SubSeq(bytes, 4, n)) ELSE "")

(* ------------------------------- state -------------------------------- *)

VARIABLES
  streamQueues,  \* streamQueues.A, streamQueues.B: the payloads waiting for each slot
  req,           \* each POST /interpret request: its fields, locals, position, reply
  files,         \* the paths that exist under uploads/
  now,           \* the last value Date.now() returned
  enq,           \* ghost: every payload appended to each slot's queue, in order
  deq,           \* ghost: every payload a GET /stream returned from each slot, in order
  last           \* the reply to the latest GET /stream/:mode (ghost: rid, pending)

vars == <<streamQueues, req, files, now, enq, deq, last>>

\* req.file.path, the file multer stored, and the renamed `${audioPath}.webm`
AudioPath(r) == <<r, "upload">>
WebmPath(r) == <<r, "upload.webm">>

NoBody == [none |-> TRUE]

\* No GET /stream/:mode was answered yet.
NoPoll == [slot |-> "none", status |-> 0, body |-> NoBody, rid |-> 0, pending |-> 0]

\* A request: the form fields the handler read, its locals, its position (pc),
\* the provider calls it made and its reply. Ghost: settled, how each awaited
\* promise ended, in order; enqSeq, the rank of its append among all appends.
NewRequest ==
  [pc |-> "new", hasFile |-> FALSE, sourceLang |-> UndefinedLang,
   targetLang |-> UndefinedLang, mode |-> Undefined, transcript |-> Undefined,
   interpretedText |-> Undefined, calls |-> <<>>, status |-> 0, body |-> NoBody,
   settled |-> <<>>, enqSeq |-> 0]

Init ==
  /\ streamQueues = [s \in Slots |-> <<>>]
  /\ req = [r \in Reqs |-> NewRequest]
  /\ files = {}
  /\ now = 0
  /\ enq = [s \in Slots |-> <<>>]
  /\ deq = [s \in Slots |-> <<>>]
  /\ last = NoPoll

(* ------------------------- pieces of the handlers --------------------- *)

\* fs.unlinkSync(path) and fs.renameSync(old, new) throw when the path is absent.
FsThrows(fs, path) == path \notin fs
UnlinkSync(fs, path) == fs \ {path}
RenameSync(fs, old, new) == (fs \ {old}) \cup {new}

\* res.status(status).json(body): the request is answered.
Reply(q, status, body) == [q EXCEPT !.pc = "done", !.status = status, !.body = body]

\* Mutant of Catch: the reply carries what the pipeline had produced so far.
CatchPartial(q) ==
  Reply(q, 500, [error |-> "Failed to interpret.", transcript |-> q.transcript])

\* Mutant of Catch: the error is swallowed and no reply is sent.
CatchNoReply(q) == [q EXCEPT !.pc = "failed"]

\* Lines 133-136: catch (error) { res.status(500).json({ error: "Failed to interpret." }) }
Catch(q) == Reply(q, 500, [error |-> "Failed to interpret."])

\* Mutant of PushForOther: the payload goes to the sender's own queue.
PushForOwn(queues, mode, payload) ==
  IF mode \in DOMAIN queues THEN [queues EXCEPT ![mode] = Append(@, payload)] ELSE queues

\* Mutant of PushForOther: the payload goes to both queues.
PushForBoth(queues, mode, payload) ==
  IF mode \in DOMAIN queues THEN [s \in DOMAIN queues |-> Append(queues[s], payload)] ELSE queues

\* Mutant of PushForOther: the payload is inserted where its request's
\* arrival puts it, so each queue stays in submission order.
PushInArrivalOrder(queues, mode, payload) ==
  LET Insert(queue) == SelectSeq(queue, LAMBDA p : p.rid < payload.rid)
                       \o <<payload>>
                       \o SelectSeq(queue, LAMBDA p : p.rid > payload.rid)
  IN IF mode = "A" THEN [queues EXCEPT !["B"] = Insert(@)]
     ELSE IF mode = "B" THEN [queues EXCEPT !["A"] = Insert(@)]
     ELSE queues

\* Mutant of PushForOther: unshift instead of push, the payload goes to the front.
PushFront(queues, mode, payload) ==
  IF mode = "A" THEN [queues EXCEPT !["B"] = <<payload>> \o @]
  ELSE IF mode = "B" THEN [queues EXCEPT !["A"] = <<payload>> \o @]
  ELSE queues

\* Lines 118-123: if (mode === "A") streamQueues.B.push(payload)
\* else if (mode === "B") streamQueues.A.push(payload)
PushForOther(queues, mode, payload) ==
  IF mode = "A" THEN [queues EXCEPT !["B"] = Append(@, payload)]
  ELSE IF mode = "B" THEN [queues EXCEPT !["A"] = Append(@, payload)]
  ELSE queues

\* Mutant of StreamPayload: the text and the audio fields are swapped.
StreamPayloadSwapped(r, base64Audio, interpretedText, t) ==
  [rid |-> r, audioBase64 |-> interpretedText, text |-> base64Audio, timestamp |-> t]

\* Lines 112-116: const streamPayload = { audioBase64, text: interpretedText,
\* timestamp: Date.now() }, built by request r.
StreamPayload(r, base64Audio, interpretedText, t) ==
  [rid |-> r, audioBase64 |-> base64Audio, text |-> interpretedText, timestamp |-> t]

\* Mutant of ShiftItem: the newest element is returned instead of the oldest.
ShiftItemNewest(queue) == queue[Len(queue)]

\* Line 154, queue.shift(): the element returned and the elements left.
ShiftItem(queue) == Head(queue)

\* Mutant of ShiftRest: the poll reads queue[0] and leaves the queue as it is.
ShiftRestKeep(queue) == queue

\* Mutant of ShiftRest: the poll empties the queue.
ShiftRestClear(queue) == <<>>

ShiftRest(queue) == Tail(queue)

\* A JSON field that may be null: null is <<>>, a value v is <<v>>.
Null == <<>>
Val(v) == <<v>>

\* res.json(audioItem): the payload's three fields (rid is the object's
\* identity, not a field).
Json(payload) ==
  [audioBase64 |-> Val(payload.audioBase64), text |-> Val(payload.text),
   timestamp |-> Val(payload.timestamp)]

\* Ghost: the appends a step made, read off the queues before and after it.
Appended(old, new) ==
  [s \in Slots |-> IF Len(new[s]) > Len(old[s]) THEN <<new[s][Len(new[s])]>> ELSE <<>>]

\* Ghost: how many payloads appended to a slot's queue were not returned yet.
Pending(s) == Len(enq[s]) - Len(deq[s])

(* ------------------------- POST /interpret ---------------------------- *)

\* Lines 55-85: multer stores the uploaded file, then the handler validates
\* the request, renames the file and starts the transcription. Requests are
\* numbered in the order they arrive. A request without a file is answered
\* before line 61 reads the form fields, so they stay unread.
Interpret(r, hasFile, sourceLang, targetLang, mode) ==
  /\ req[r].pc = "new"
  /\ \A p \in Reqs : p < r => req[p].pc # "new"
  /\ LET q == [req[r] EXCEPT !.hasFile = hasFile, !.sourceLang = sourceLang,
                              !.targetLang = targetLang, !.mode = mode]
         stored == IF hasFile THEN files \cup {AudioPath(r)} ELSE files
     IN IF ~hasFile
          THEN /\ req' = [req EXCEPT ![r] =
                            Reply([@ EXCEPT !.hasFile = FALSE], 400,
                                  [error |-> "No audio file uploaded."])]
               /\ files' = stored
        ELSE IF Falsy(sourceLang) \/ Falsy(targetLang)
          THEN IF FsThrows(stored, AudioPath(r))
                 THEN /\ req' = [req EXCEPT ![r] = Catch(q)]
                      /\ files' = stored
                 ELSE /\ req' = [req EXCEPT ![r] =
                                   Reply(q, 400, [error |-> "Missing sourceLang or targetLang."])]
                      /\ files' = UnlinkSync(stored, AudioPath(r))
        ELSE IF ~InterpretModeOk(mode)
          THEN IF FsThrows(stored, AudioPath(r))
                 THEN /\ req' = [req EXCEPT ![r] = Catch(q)]
                      /\ files' = stored
                 ELSE /\ req' = [req EXCEPT ![r] = Reply(q, 400, [error |-> "Invalid mode value."])]
                      /\ files' = UnlinkSync(stored, AudioPath(r))
        ELSE IF FsThrows(stored, AudioPath(r))
          THEN /\ req' = [req EXCEPT ![r] = Catch(q)]
               /\ files' = stored
        ELSE /\ files' = RenameSync(stored, AudioPath(r), WebmPath(r))
             /\ req' = [req EXCEPT ![r] =
                          [q EXCEPT !.pc = "transcribe",
                                    !.calls = Append(@, [api |-> "transcriptions.create",
                                                         model |-> "whisper-1",
                                                         file |-> WebmPath(r),
                                                         language |-> PrimarySubtag(sourceLang)])]]
  /\ UNCHANGED <<streamQueues, now, enq, deq, last>>

\* Mutant of TranscriptionSettled: a rejected transcription is ignored and the
\* handler goes on to the translation.
TranscriptionSettledIgnoreError(r, ok, text) ==
  /\ req[r].pc = "transcribe"
  /\ req' = [req EXCEPT ![r] =
               [@ EXCEPT !.pc = "translate",
                         !.settled = Append(@, IF ok THEN "fulfilled" ELSE "rejected"),
                         !.transcript = text,
                         !.calls = Append(@, [api |-> "chat.completions.create",
                                              model |-> "gpt-4",
                                              target |-> LANGUAGES(req[r].targetLang),
                                              text |-> text])]]
  /\ UNCHANGED <<streamQueues, files, now, enq, deq, last>>

\* Lines 81-96: the transcription settles; on success the handler builds the
\* prompt and starts the translation, on rejection it falls to the catch.
TranscriptionSettled(r, ok, text) ==
  /\ req[r].pc = "transcribe"
  /\ IF ~ok
       THEN req' = [req EXCEPT ![r] = Catch([@ EXCEPT !.settled = Append(@, "rejected")])]
       ELSE req' = [req EXCEPT ![r] =
                      [@ EXCEPT !.pc = "translate",
                                !.settled = Append(@, "fulfilled"),
                                !.transcript = text,
                                !.calls = Append(@, [api |-> "chat.completions.create",
                                                     model |-> "gpt-4",
                                                     target |-> LANGUAGES(req[r].targetLang),
                                                     text |-> text])]]
  /\ UNCHANGED <<streamQueues, files, now, enq, deq, last>>

\* Lines 93-106: the translation settles; choices[0].message.content throws a
\* TypeError when choices is empty; otherwise the handler starts the synthesis.
ChatSettled(r, ok, choices) ==
  /\ req[r].pc = "translate"
  /\ IF ~ok
       THEN req' = [req EXCEPT ![r] = Catch([@ EXCEPT !.settled = Append(@, "rejected")])]
       ELSE IF Len(choices) = 0
       THEN req' = [req EXCEPT ![r] = Catch([@ EXCEPT !.settled = Append(@, "fulfilled")])]
       ELSE req' = [req EXCEPT ![r] =
                      [@ EXCEPT !.pc = "speech",
                                !.settled = Append(@, "fulfilled"),
                                !.interpretedText = choices[1],
                                !.calls = Append(@, [api |-> "speech.create",
                                                     model |-> "tts-1",
                                                     voice |-> getVoiceForLang(req[r].targetLang),
                                                     input |-> choices[1]])]]
  /\ UNCHANGED <<streamQueues, files, now, enq, deq, last>>

\* Mutant of SpeechSettled: the payload is queued as soon as the synthesis
\* answers, before the audio bytes were read.
SpeechSettledPushEarly(r, ok) ==
  /\ req[r].pc = "speech"
  /\ IF ~ok
       THEN /\ req' = [req EXCEPT ![r] = Catch([@ EXCEPT !.settled = Append(@, "rejected")])]
            /\ UNCHANGED <<streamQueues, enq>>
       ELSE /\ req' = [req EXCEPT ![r] = [@ EXCEPT !.pc = "buffer",
                                                    !.settled = Append(@, "fulfilled")]]
            /\ streamQueues' = PushForOther(streamQueues, req[r].mode,
                                            StreamPayload(r, "", req[r].interpretedText, now))
            /\ enq' = [s \in Slots |-> enq[s] \o Appended(streamQueues, streamQueues')[s]]
  /\ UNCHANGED <<files, now, deq, last>>

\* Mutant of SpeechSettled: the continuation runs only once every request
\* that arrived earlier has been answered.
SpeechSettledSerial(r, ok) ==
  /\ req[r].pc = "speech"
  /\ \A p \in Reqs : p < r => req[p].pc = "done"
  /\ IF ~ok
       THEN req' = [req EXCEPT ![r] = Catch([@ EXCEPT !.settled = Append(@, "rejected")])]
       ELSE req' = [req EXCEPT ![r] = [@ EXCEPT !.pc = "buffer",
                                                !.settled = Append(@, "fulfilled")]]
  /\ UNCHANGED <<streamQueues, files, now, enq, deq, last>>

\* Lines 102-108: the synthesis settles; on success the handler awaits the
\* response's arrayBuffer().
SpeechSettled(r, ok) ==
  /\ req[r].pc = "speech"
  /\ IF ~ok
       THEN req' = [req EXCEPT ![r] = Catch([@ EXCEPT !.settled = Append(@, "rejected")])]
       ELSE req' = [req EXCEPT ![r] = [@ EXCEPT !.pc = "buffer",
                                                !.settled = Append(@, "fulfilled")]]
  /\ UNCHANGED <<streamQueues, files, now, enq, deq, last>>

\* Lines 108-132: the audio bytes arrive; the handler encodes them, builds the
\* payload with Date.now() (t), appends it to the other slot's queue, deletes
\* the temporary file and replies 200.
BufferSettled(r, ok, bytes, t) ==
  /\ req[r].pc = "buffer"
  /\ IF ~ok
       THEN /\ req' = [req EXCEPT ![r] = Catch([@ EXCEPT !.settled = Append(@, "rejected")])]
            /\ UNCHANGED <<streamQueues, files, now, enq>>
       ELSE LET base64Audio == Base64(bytes)
                streamPayload == StreamPayload(r, base64Audio, req[r].interpretedText, t)
                q == [req[r] EXCEPT !.settled = Append(@, "fulfilled"),
                                    !.enqSeq = Len(enq["A"]) + Len(enq["B"]) + 1]
            IN /\ t >= now
               /\ now' = t
               /\ streamQueues' = PushForOther(streamQueues, req[r].mode, streamPayload)
               /\ enq' = [s \in Slots |-> enq[s] \o Appended(streamQueues, streamQueues')[s]]
               /\ IF FsThrows(files, WebmPath(r))
                    THEN /\ req' = [req EXCEPT ![r] = Catch(q)]
                         /\ files' = files
                    ELSE /\ files' = UnlinkSync(files, WebmPath(r))
                         /\ req' = [req EXCEPT ![r] =
                                      Reply(q, 200, [transcript |-> req[r].transcript,
                                                     interpretedText |-> req[r].interpretedText,
                                                     audioBase64 |-> base64Audio])]
  /\ UNCHANGED <<deq, last>>

(* ------------------------- GET /stream/:mode -------------------------- *)

\* Mutant of EmptyBody: the sentinel lacks its timestamp field.
EmptyBodyNoTimestamp == [audioBase64 |-> Null, text |-> Null]

\* Line 150: { audioBase64: null, text: null, timestamp: null }
EmptyBody == [audioBase64 |-> Null, text |-> Null, timestamp |-> Null]

\* Lines 140-156.
Stream(mode) ==
  /\ IF ~StreamModeOk(mode)
       THEN /\ last' = [slot |-> mode, status |-> 400, body |-> [error |-> "Invalid stream mode."],
                        rid |-> 0, pending |-> 0]
            /\ UNCHANGED <<streamQueues, deq>>
       ELSE LET queue == streamQueues[mode]
            IN IF Len(queue) = 0
                 THEN /\ last' = [slot |-> mode, status |-> 200, body |-> EmptyBody,
                                  rid |-> 0, pending |-> Pending(mode)]
                      /\ UNCHANGED <<streamQueues, deq>>
                 ELSE /\ streamQueues' = [streamQueues EXCEPT ![mode] = ShiftRest(queue)]
                      /\ last' = [slot |-> mode, status |-> 200, body |-> Json(ShiftItem(queue)),
                                  rid |-> ShiftItem(queue).rid, pending |-> Pending(mode)]
                      /\ deq' = [deq EXCEPT ![mode] = Append(@, ShiftItem(queue))]
  /\ UNCHANGED <<req, files, now, enq>>

(* ------------------------------ GET / --------------------------------- *)

\* Lines 157-159.
RootReply == [status |-> 200, text |-> "Hello from the backend!"]

Root == UNCHANGED vars

(* --------------------------- specification ---------------------------- *)

Next ==
  \/ \E r \in Reqs, hasFile \in BOOLEAN, sourceLang \in SourceLangs,
         targetLang \in TargetLangs, mode \in Modes :
       Interpret(r, hasFile, sourceLang, targetLang, mode)
  \/ \E r \in Reqs, ok \in BOOLEAN, text \in Transcripts : TranscriptionSettled(r, ok, text)
  \/ \E r \in Reqs, ok \in BOOLEAN, choices \in ChoiceLists : ChatSettled(r, ok, choices)
  \/ \E r \in Reqs, ok \in BOOLEAN : SpeechSettled(r, ok)
  \/ \E r \in Reqs, ok \in BOOLEAN, bytes \in AudioBuffers, t \in 0..MaxClock :
       BufferSettled(r, ok, bytes, t)
  \/ \E mode \in Modes : Stream(mode)
  \/ Root

Spec == Init /\ [][Next]_vars

\* Lines 81, 93, 102, 108: every provider call of request r returns, with a
\* result or an error, and the event loop then runs the continuation.
FairReq(r) ==
  /\ WF_vars(\E ok \in BOOLEAN, text \in Transcripts : TranscriptionSettled(r, ok, text))
  /\ WF_vars(\E ok \in BOOLEAN, choices \in ChoiceLists : ChatSettled(r, ok, choices))
  /\ WF_vars(\E ok \in BOOLEAN : SpeechSettled(r, ok))
  /\ WF_vars(\E ok \in BOOLEAN, bytes \in AudioBuffers, t \in 0..MaxClock :
               BufferSettled(r, ok, bytes, t))

\* Lines 140-156: the client of slot s keeps polling GET /stream/s.
FairPoll(s) == WF_vars(Stream(s))

\* The program while both slots keep being polled; provider calls may never
\* return.
SpecPoll == Spec /\ \A s \in Slots : FairPoll(s)

\* The program when every provider call returns.
SpecReturn == Spec /\ \A r \in Reqs : FairReq(r)

\* The same program when every provider call succeeds, with requests that
\* pass the validation and a wider choice of targetLang: a supported language
\* with a voice, one without, a code outside LANGUAGES, and a property name
\* every object inherits.
WideTargetLangs == { <<"fr", "FR">>, <<"tr", "TR">>, <<"xx", "YY">>, <<"constructor">> }

NextLang ==
  \/ \E r \in Reqs, targetLang \in WideTargetLangs, mode \in Slots :
       Interpret(r, TRUE, <<"en", "US">>, targetLang, mode)
  \/ \E r \in Reqs, text \in Transcripts : TranscriptionSettled(r, TRUE, text)
  \/ \E r \in Reqs : ChatSettled(r, TRUE, <<"bonjour">>)
  \/ \E r \in Reqs : SpeechSettled(r, TRUE)
  \/ \E r \in Reqs, bytes \in AudioBuffers, t \in 0..MaxClock : BufferSettled(r, TRUE, bytes, t)
  \/ \E mode \in Modes : Stream(mode)
  \/ Root

SpecLang == Init /\ [][NextLang]_vars

(* ------------------------------ claims -------------------------------- *)

IsPrefix(p, q) == Len(p) <= Len(q) /\ \A k \in 1..Len(p) : p[k] = q[k]

\* C1: for each slot X the non-empty replies of GET /stream/X are, in order,
\* the payloads appended to X's queue (the k-th reply is the k-th append), the
\* payloads not yet returned wait in the queue in that order, and a poll of X
\* is answered with the Empty sentinel exactly when every payload appended to
\* X so far had already been returned.
C1_Fifo ==
  \A s \in Slots :
    /\ IsPrefix(deq[s], enq[s])
    /\ enq[s] = deq[s] \o streamQueues[s]
    /\ (last.slot = s) =>
         /\ last.status = 200
         /\ (last.body = EmptyBody) <=> (last.pending = 0)
         /\ (last.body # EmptyBody) =>
              /\ Len(deq[s]) > 0
              /\ last.body = Json(enq[s][Len(deq[s])])
              /\ last.rid = enq[s][Len(deq[s])].rid

\* Two payloads were appended to one slot, both were returned, and a further
\* poll of that slot found nothing left.
C1_Witness ==
  \E s \in Slots :
    /\ Len(deq[s]) = 2
    /\ deq[s][1].rid # deq[s][2].rid
    /\ last.slot = s
    /\ last.body = EmptyBody

OtherSlot(s) == IF s = "A" THEN "B" ELSE "A"

\* The requests whose payloads a sequence of payloads holds.
Rids(payloads) == {payloads[k].rid : k \in 1..Len(payloads)}

\* C2: a payload built by a request with mode A is appended to queue B only,
\* waits in queue B only and is returned by GET /stream/B only, and
\* symmetrically for mode B: every append targets the slot opposite the sender
\* and every non-empty reply of GET /stream/X comes from X's own queue.
C2_OppositeSlot ==
  \A s \in Slots :
    /\ \A r \in Rids(enq[s]) \cup Rids(streamQueues[s]) \cup Rids(deq[s]) :
         req[r].mode = OtherSlot(s)
    /\ (last.slot = s /\ last.rid # 0) =>
         /\ req[last.rid].mode = OtherSlot(s)
         /\ last.rid \in Rids(enq[s])
         /\ last.rid \notin Rids(enq[OtherSlot(s)])

\* A payload sent with mode A was returned by GET /stream/B while a payload
\* sent with mode B was appended for A.
C2_Witness ==
  /\ last.slot = "B"
  /\ last.rid # 0
  /\ req[last.rid].mode = "A"
  /\ \E r \in Rids(enq["A"]) : req[r].mode = "B"

\* C3: slot isolation. A step that appends to queue B leaves queue A as it
\* was (same payloads, same order), and a step that appends to queue A leaves
\* queue B as it was.
C3_SlotIsolation ==
  [][\A s \in Slots :
       (Len(enq'[s]) > Len(enq[s]) \/ Len(streamQueues'[s]) > Len(streamQueues[s]))
         => /\ streamQueues'[OtherSlot(s)] = streamQueues[OtherSlot(s)]
            /\ enq'[OtherSlot(s)] = enq[OtherSlot(s)]]_vars

\* A payload was appended to queue B after the payload that still waits in
\* queue A: the append to B found queue A non-empty.
C3_Witness ==
  /\ Len(streamQueues["A"]) = 1
  /\ Len(enq["B"]) = 1
  /\ req[enq["B"][1].rid].enqSeq > req[streamQueues["A"][1].rid].enqSeq

\* Every awaited promise of the request was fulfilled.
AllFulfilled(q) == Len(q.settled) = 4 /\ \A k \in 1..4 : q.settled[k] = "fulfilled"

\* An awaited provider promise of the request was rejected.
SomeRejected(q) == \E k \in 1..Len(q.settled) : q.settled[k] = "rejected"

C5_ProviderFailureAborts ==
  \A r \in Reqs :
    SomeRejected(req[r]) =>
      LET n == Len(req[r].settled)
      IN /\ req[r].settled[n] = "rejected"
         /\ \A k \in 1..(n - 1) : req[r].settled[k] = "fulfilled"
         /\ Len(req[r].calls) = IF n <= 3 THEN n ELSE 3
         /\ \A i, j \in 1..Len(req[r].calls) : i # j => req[r].calls[i].api # req[r].calls[j].api
         /\ req[r].pc = "done"
         /\ req[r].status = 500
         /\ req[r].body = [error |-> "Failed to interpret."]
         /\ \A s \in Slots : r \notin Rids(enq[s]) \cup Rids(streamQueues[s])

\* The synthesis was rejected after the transcription and the translation had
\* succeeded.
C5_Witness ==
  \E r \in Reqs :
    /\ req[r].settled = <<"fulfilled", "fulfilled", "rejected">>
    /\ req[r].transcript = "hello"
    /\ req[r].interpretedText = "bonjour"
    /\ req[r].status = 500

\* C6: a POST /interpret whose mode is outside {A,B}, and a GET /stream/:mode
\* whose mode is outside {A,B}, is answered 400 and changes nothing: both
\* queues and the files are as before and no provider call was made.
C6_InvalidMode ==
  [][/\ \A r \in Reqs, hasFile \in BOOLEAN, sourceLang \in SourceLangs,
           targetLang \in TargetLangs, mode \in Modes \ {"A", "B"} :
          Interpret(r, hasFile, sourceLang, targetLang, mode)
            => /\ req'[r].pc = "done"
               /\ req'[r].status = 400
               /\ req'[r].calls = <<>>
               /\ UNCHANGED <<streamQueues, enq, deq, files>>
     /\ \A mode \in Modes \ {"A", "B"} :
          Stream(mode)
            => /\ last'.slot = mode
               /\ last'.status = 400
               /\ UNCHANGED <<streamQueues, enq, deq, files, req>>]_vars

\* Both endpoints rejected the mode "C" while a payload was waiting in a queue.
C6_Witness ==
  /\ \E r \in Reqs : /\ req[r].mode = "C"
                     /\ req[r].status = 400
                     /\ req[r].body = [error |-> "Invalid mode value."]
  /\ last.slot = "C"
  /\ last.status = 400
  /\ \E s \in Slots : Len(streamQueues[s]) > 0

\* C7: a POST /interpret without an audio file, or whose sourceLang or
\* targetLang is missing or empty, is answered 400, leaves both queues as they
\* were and makes no provider call.
C7_MissingFields ==
  [][\A r \in Reqs, hasFile \in BOOLEAN, sourceLang \in SourceLangs,
        targetLang \in TargetLangs, mode \in Modes :
       (/\ Interpret(r, hasFile, sourceLang, targetLang, mode)
        /\ \/ ~hasFile
           \/ sourceLang \in {UndefinedLang, EmptyLang}
           \/ targetLang \in {UndefinedLang, EmptyLang})
         => /\ req'[r].pc = "done"
            /\ req'[r].status = 400
            /\ req'[r].calls = <<>>
            /\ UNCHANGED <<streamQueues, enq, deq>>]_vars

\* A request with an empty sourceLang and a valid mode was answered 400 while
\* a payload was waiting in a queue.
C7_Witness ==
  /\ \E r \in Reqs : /\ req[r].hasFile
                     /\ req[r].sourceLang = EmptyLang
                     /\ req[r].mode = "A"
                     /\ req[r].status = 400
                     /\ req[r].body = [error |-> "Missing sourceLang or targetLang."]
  /\ \E s \in Slots : Len(streamQueues[s]) > 0

\* The rank, among all appends, of the append that queued a payload.
EnqSeq(payload) == req[payload.rid].enqSeq

\* C8: the payloads of a slot are appended, wait and are returned in the order
\* in which their pipelines reached the append (completion order), whatever
\* the order in which their requests arrived: along the replies of
\* GET /stream/X followed by the payloads still waiting for X, the rank of
\* the append strictly increases.
C8_CompletionOrder ==
  \A s \in Slots :
    LET line == deq[s] \o streamQueues[s]
    IN /\ \A i, j \in 1..Len(line) : i < j => EnqSeq(line[i]) < EnqSeq(line[j])
       /\ \A i \in 1..Len(line) : EnqSeq(line[i]) > 0

\* Two requests with the same mode were in flight together, the one that
\* arrived second reached its append first, and the recipient's two polls
\* returned the second request's payload before the first's.
C8_Witness ==
  \E s \in Slots :
    /\ Len(deq[s]) = 2
    /\ deq[s][1].rid > deq[s][2].rid
    /\ req[deq[s][1].rid].mode = req[deq[s][2].rid].mode
    /\ EnqSeq(deq[s][1]) < EnqSeq(deq[s][2])

\* C9: a POST /interpret with mode=A whose awaits all succeed is answered 200
\* and has appended exactly one payload, to queue B and not to queue A, whose
\* text and audio are the interpretedText and audioBase64 of the reply; when
\* it is the only payload ever appended to B, a GET /stream/B that finds it
\* pending returns it and empties the queue, and a GET /stream/B that finds
\* nothing pending returns the all-null body.
C9_EndToEnd ==
  /\ \A r \in Reqs :
       (AllFulfilled(req[r]) /\ req[r].mode = "A") =>
         /\ req[r].pc = "done"
         /\ req[r].status = 200
         /\ DOMAIN req[r].body = {"transcript", "interpretedText", "audioBase64"}
         /\ r \notin Rids(enq["A"])
         /\ Cardinality({k \in 1..Len(enq["B"]) : enq["B"][k].rid = r}) = 1
         /\ \A k \in 1..Len(enq["B"]) :
              enq["B"][k].rid = r =>
                /\ enq["B"][k].text = req[r].body.interpretedText
                /\ enq["B"][k].audioBase64 = req[r].body.audioBase64
  /\ Len(enq["B"]) = 1 =>
       LET u == enq["B"][1]
       IN /\ \/ streamQueues["B"] = <<u>> /\ deq["B"] = <<>>
             \/ streamQueues["B"] = <<>> /\ deq["B"] = <<u>>
          /\ (last.slot = "B" /\ last.pending = 1) =>
               /\ last.status = 200
               /\ last.body = [audioBase64 |-> <<u.audioBase64>>, text |-> <<u.text>>,
                               timestamp |-> <<u.timestamp>>]
               /\ streamQueues["B"] = <<>>
          /\ (last.slot = "B" /\ last.pending = 0) =>
               /\ last.status = 200
               /\ last.body = [audioBase64 |-> <<>>, text |-> <<>>, timestamp |-> <<>>]

\* One en-US to fr-FR submission with mode A succeeded, GET /stream/B returned
\* its payload, and the next GET /stream/B returned the all-null body.
C9_Witness ==
  \E r \in Reqs :
    /\ req[r].status = 200
    /\ req[r].mode = "A"
    /\ req[r].sourceLang = <<"en", "US">>
    /\ req[r].targetLang = <<"fr", "FR">>
    /\ req[r].body = [transcript |-> "hello", interpretedText |-> "bonjour",
                      audioBase64 |-> "SUQzBA=="]
    /\ Len(enq["B"]) = 1
    /\ deq["B"] = enq["B"]
    /\ deq["B"][1].rid = r
    /\ last.slot = "B"
    /\ last.pending = 0
    /\ last.body = EmptyBody

\* C10: once a POST /interpret request that uploaded a file has been answered,
\* its temporary file (under either name) no longer exists.
C10_TempFileDeleted ==
  \A r \in Reqs :
    (req[r].pc = "done" /\ req[r].hasFile) =>
      (AudioPath(r) \notin files /\ WebmPath(r) \notin files)

\* C11: a request that made a provider call has a sourceLang and a targetLang
\* that are keys of LANGUAGES.
C11_SupportedLanguages ==
  \A r \in Reqs :
    req[r].calls # <<>> =>
      /\ req[r].sourceLang \in LanguageKeys
      /\ req[r].targetLang \in LanguageKeys

\* The voice table of the claim: the four mapped languages.
MappedVoice(lang) ==
  CASE lang = <<"en", "US">> -> "nova"
    [] lang = <<"fr", "FR">> -> "onyx"
    [] lang = <<"es", "ES">> -> "shimmer"
    [] lang = <<"de", "DE">> -> "echo"
    [] OTHER -> "nova"

\* C12: the voice handed to the synthesis is the mapped voice for a language
\* of the voice table and the default voice "nova" for every other targetLang.
C12_VoiceTotal ==
  \A r \in Reqs :
    \A k \in 1..Len(req[r].calls) :
      req[r].calls[k].api = "speech.create" =>
        req[r].calls[k].voice = MappedVoice(req[r].targetLang)

\* C13: a GET /stream/A or GET /stream/B that finds its queue empty is
\* answered 200 with audioBase64, text and timestamp all null, and changes
\* neither queue.
C13_EmptyPoll ==
  [][\A mode \in {"A", "B"} :
       (Stream(mode) /\ Len(streamQueues[mode]) = 0)
         => /\ last'.slot = mode
            /\ last'.status = 200
            /\ last'.body = [audioBase64 |-> <<>>, text |-> <<>>, timestamp |-> <<>>]
            /\ UNCHANGED <<streamQueues, enq, deq, req, files>>]_vars

\* GET /stream/A found queue A empty, after it had been emptied by an earlier
\* poll, while a payload was waiting for B.
C13_Witness ==
  /\ last.slot = "A"
  /\ last.status = 200
  /\ last.body = [audioBase64 |-> <<>>, text |-> <<>>, timestamp |-> <<>>]
  /\ Len(deq["A"]) = 1
  /\ Len(streamQueues["A"]) = 0
  /\ Len(streamQueues["B"]) = 1

\* How many payloads of a sequence were built by request r.
Count(payloads, r) == Cardinality({k \in 1..Len(payloads) : payloads[k].rid = r})

\* C14: no payload is lost or duplicated. Each payload that was appended was
\* appended once, to one slot, and is either waiting at exactly one position
\* of that slot's queue or was returned by exactly one poll of that slot; a
\* payload that was never appended waits nowhere and was never returned.
C14_NoLossNoDuplication ==
  \A r \in Reqs :
    LET appended == Count(enq["A"], r) + Count(enq["B"], r)
    IN /\ appended <= 1
       /\ \A s \in Slots :
            Count(streamQueues[s], r) + Count(deq[s], r) = Count(enq[s], r)

\* Of two payloads appended to one slot while polls and pipelines interleaved,
\* one was returned and the other still waits.
C14_Witness ==
  \E s \in Slots :
    /\ Len(deq[s]) = 1
    /\ Len(streamQueues[s]) = 1
    /\ deq[s][1].rid # streamQueues[s][1].rid
    /\ last.slot = s
    /\ last.rid = deq[s][1].rid

\* The provider calls of one request, in the order of the pipeline.
StageApis == <<"transcriptions.create", "chat.completions.create", "speech.create">>

\* The position of a request in its handler.
StageRank(pc) ==
  CASE pc = "new" -> 0
    [] pc = "transcribe" -> 1
    [] pc = "translate" -> 2
    [] pc = "speech" -> 3
    [] pc = "buffer" -> 4
    [] pc = "done" -> 5

\* How many payloads request r has appended, over both slots.
Enqueued(r) == Count(enq["A"], r) + Count(enq["B"], r)

\* C15: within one POST /interpret the steps run in the order validate,
\* transcribe, translate, synthesize, enqueue, reply. The provider calls a
\* request has made are a prefix of transcribe, translate, synthesize (each at
\* most once), the first one only after validation passed and the k-th only
\* after the k-1 earlier awaits were fulfilled; a payload is appended only
\* after all awaits were fulfilled, and a request answered 200 has appended
\* its payload. Every step of a request moves it to the next stage or to its
\* reply, starts at most one call, and appends only from the last await.
C15_StepOrder ==
  /\ [](\A r \in Reqs :
          LET q == req[r]
          IN /\ Len(q.calls) <= 3
             /\ \A k \in 1..Len(q.calls) :
                  /\ q.calls[k].api = StageApis[k]
                  /\ Len(q.settled) >= k - 1
                  /\ \A j \in 1..(k - 1) : q.settled[j] = "fulfilled"
             /\ Len(q.calls) > 0 =>
                  /\ q.hasFile
                  /\ q.sourceLang \notin {<<>>, <<"">>}
                  /\ q.targetLang \notin {<<>>, <<"">>}
                  /\ q.mode \in {"A", "B"}
             /\ Enqueued(r) > 0 => Len(q.calls) = 3 /\ AllFulfilled(q)
             /\ q.status = 200 => Enqueued(r) = 1 /\ q.pc = "done")
  /\ [][\A r \in Reqs :
          req'[r] # req[r] =>
            /\ \/ StageRank(req'[r].pc) = StageRank(req[r].pc) + 1
               \/ req'[r].pc = "done" /\ req[r].pc # "done"
            /\ \/ req'[r].calls = req[r].calls
               \/ /\ Len(req'[r].calls) = Len(req[r].calls) + 1
                  /\ SubSeq(req'[r].calls, 1, Len(req[r].calls)) = req[r].calls
                  /\ Len(req'[r].calls) = StageRank(req'[r].pc)
            /\ enq' # enq => req[r].pc = "buffer"]_vars

\* One request went through every stage and was answered 200 with its payload
\* appended, while another one stopped after a rejected translation with two
\* calls made and nothing appended.
C15_Witness ==
  \E r, p \in Reqs :
    /\ req[r].status = 200
    /\ Len(req[r].calls) = 3
    /\ Enqueued(r) = 1
    /\ req[p].status = 500
    /\ Len(req[p].calls) = 2
    /\ req[p].settled = <<"fulfilled", "rejected">>
    /\ Enqueued(p) = 0

\* C17: the queues change only by the relay's two operations. A step that
\* changes a queue changes exactly one of them, and it is either a POST
\* /interpret passing from its last await to its 200 reply and appending its
\* one payload at the tail of the slot opposite to its mode, or a GET /stream
\* of that slot removing the head and returning it. Every other step leaves
\* both queues as they were.
C17_NoOtherMutation ==
  [][streamQueues' # streamQueues =>
       \E s \in {"A", "B"} :
         /\ streamQueues'[OtherSlot(s)] = streamQueues[OtherSlot(s)]
         /\ \/ \E r \in Reqs :
                 /\ req[r].pc = "buffer"
                 /\ req'[r].pc = "done"
                 /\ req'[r].status = 200
                 /\ req[r].mode = OtherSlot(s)
                 /\ Len(streamQueues'[s]) = Len(streamQueues[s]) + 1
                 /\ SubSeq(streamQueues'[s], 1, Len(streamQueues[s])) = streamQueues[s]
                 /\ streamQueues'[s][Len(streamQueues'[s])].rid = r
                 /\ \A p \in Reqs \ {r} : req'[p] = req[p]
                 /\ last' = last
            \/ /\ Len(streamQueues[s]) > 0
               /\ streamQueues'[s] = SubSeq(streamQueues[s], 2, Len(streamQueues[s]))
               /\ last'.slot = s
               /\ last'.status = 200
               /\ last'.rid = streamQueues[s][1].rid
               /\ req' = req
               /\ files' = files]_vars

\* Both operations have acted on one slot: two payloads were appended to it
\* and two polls removed them, and the other slot was never touched.
C17_Witness ==
  \E s \in Slots :
    /\ Len(enq[s]) = 2
    /\ Len(deq[s]) = 2
    /\ streamQueues[s] = <<>>
    /\ enq[OtherSlot(s)] = <<>>
    /\ \A r \in Reqs : req[r].status = 200

\* C18: with a clock that never goes back, the timestamps of the payloads
\* waiting in each queue are non-decreasing from the head to the tail, and so
\* are those of the payloads in the order they were appended to the slot.
C18_TimestampOrder ==
  \A s \in Slots :
    /\ \A i, j \in 1..Len(streamQueues[s]) :
         i < j => streamQueues[s][i].timestamp <= streamQueues[s][j].timestamp
    /\ \A i, j \in 1..Len(enq[s]) :
         i < j => enq[s][i].timestamp <= enq[s][j].timestamp

\* Two payloads wait in one queue, the older at the head with a strictly
\* smaller timestamp, appended by the request that arrived second.
C18_Witness ==
  \E s \in Slots :
    /\ Len(streamQueues[s]) = 2
    /\ streamQueues[s][1].timestamp < streamQueues[s][2].timestamp
    /\ streamQueues[s][1].rid > streamQueues[s][2].rid

\* A request suspended at one of its awaits.
Awaiting(r) == req[r].pc \in {"transcribe", "translate", "speech", "buffer"}

\* C16: a provider call that never returns blocks only its own request.
\* Whichever request h may stay suspended for ever, every other request whose
\* provider calls return runs from its arrival to its reply, a poll of either
\* slot can always be served, and a request suspended at an await has no
\* response and no payload appended.
C16_HangBlocksOnlyItself ==
  /\ \A h \in Reqs :
       (\A r \in Reqs \ {h} : FairReq(r))
         => \A r \in Reqs \ {h} : (req[r].pc # "new") ~> (req[r].pc = "done")
  /\ [](\A s \in Slots : ENABLED Stream(s))
  /\ [](\A r \in Reqs :
          Awaiting(r) => /\ req[r].status = 0
                         /\ req[r].body = NoBody
                         /\ Enqueued(r) = 0)

\* The first request is suspended on its translation call, unanswered and
\* with nothing appended, while the second one, which arrived later, was
\* answered 200 and its payload was returned by a poll.
C16_Witness ==
  /\ NReq >= 2
  /\ req[1].pc = "translate"
  /\ req[1].status = 0
  /\ Enqueued(1) = 0
  /\ req[2].pc = "done"
  /\ req[2].status = 200
  /\ last.rid = 2
  /\ last.status = 200

\* C19: eventual delivery. While slot s keeps being polled, every payload
\* waiting in queue s is eventually returned by a poll of s.
C19_EventualDelivery ==
  \A s \in Slots : \A r \in Reqs :
    (r \in Rids(streamQueues[s])) ~> (r \in Rids(deq[s]) /\ r \notin Rids(streamQueues[s]))

\* A payload that waited behind another one in its queue was returned by the
\* second poll of its slot.
C19_Witness ==
  \E s \in Slots :
    /\ Len(deq[s]) = 2
    /\ last.slot = s
    /\ last.rid = deq[s][2].rid
    /\ last.body = Json(deq[s][2])

\* C20: every POST /interpret whose provider calls all return ends with
\* exactly one response, of status 200, 400 or 500. A request that arrived is
\* eventually answered, an answered request carries one of the three statuses
\* and an unanswered one carries none, and an answered request is never
\* answered again.
C20_OneResponse ==
  /\ \A r \in Reqs : (req[r].pc # "new") ~> (req[r].pc = "done")
  /\ [](\A r \in Reqs :
          /\ req[r].pc = "done" => req[r].status \in {200, 400, 500} /\ req[r].body # NoBody
          /\ req[r].pc # "done" => req[r].status = 0 /\ req[r].body = NoBody)
  /\ [][\A r \in Reqs : req[r].pc = "done" => req'[r] = req[r]]_vars

\* Every request was answered: one 400 by the validation, and one 500 after
\* the translation returned an empty list of choices.
C20_Witness ==
  /\ \A r \in Reqs : req[r].pc = "done"
  /\ \E r \in Reqs : req[r].status = 400 /\ req[r].calls = <<>>
  /\ \E r \in Reqs : req[r].status = 500 /\ req[r].settled = <<"fulfilled", "fulfilled">>

====
